---------------------------- MODULE Spec2Model ----------------------------
(***************************************************************************)
(* A model of mozilla/incidents-weekly-overview: the paginated Jira issue  *)
(* fetch, the Google Docs link extractor, the incident normalizer, the     *)
(* duration humanizer and the two report builders.                         *)
(*                                                                         *)
(* Python values.  A dict is a function whose DOMAIN is the set of keys it *)
(* holds, so a missing key is a key outside the DOMAIN.  A list is a       *)
(* sequence.  A value that may be None is a record tagged by its field     *)
(* py: None, Str(s) or Dict(d).  The text of a string is a sequence of     *)
(* chunks; a chunk is one character wherever the code looks at characters  *)
(* (commas, digits, date stamps) and a longer piece of text elsewhere.     *)
(***************************************************************************)
EXTENDS Integers, Sequences, FiniteSets, TLC

VARIABLES
    \* get_all_issues_for_project and its caller
    issues,             \* the accumulated issue list
    next_page_token,    \* the continuation token of the next request
    requests,           \* the params of every request issued, in order
    responses,          \* the response to every request, in order
    fetch,              \* "running", "returned" or "raised"
    caller,             \* the report builder that called the fetch
    output,             \* what the report builder has produced
    \* extract_doc and fix_incident_data
    incident,           \* the raw issue object, as it is now
    original,           \* the raw issue object, as it was handed over
    results,            \* the outcome of every call on the object, in order
    \* humanize_timedelta
    td,                 \* the timedelta handed over
    humanized,          \* the strings returned, in order
    \* iim_weekly_report and iim_active
    program,            \* the script that runs
    now,                \* what arrow.now() gives during the run
    issue_data,         \* the raw issues the fetch returned
    reports             \* how the run ended and what it produced

fetchVars == <<issues, next_page_token, requests, responses, fetch, caller, output>>

issueVars == <<incident, original, results>>

humanVars == <<td, humanized>>

reportVars == <<program, now, issue_data, reports>>

vars == <<fetchVars, issueVars, humanVars, reportVars>>

-----------------------------------------------------------------------------
(* Python values *)

None == [py |-> "NoneType"]

Str(s) == [py |-> "str", s |-> s]

Dict(d) == [py |-> "dict", d |-> d]

List(items) == [py |-> "list", items |-> items]

\* dict.get(key, default)
Get(d, key, default) == IF key \in DOMAIN d THEN d[key] ELSE default

\* the truth value of None or of a string
Truthy(v) == v.py # "NoneType" /\ (v.py = "str" => v.s # <<>>)

\* str.startswith
StartsWith(s, prefix) ==
    Len(s) >= Len(prefix) /\ SubSeq(s, 1, Len(prefix)) = prefix

\* str.split(sep) on the characters of a string, sep one character
RECURSIVE Split(_, _)
Split(s, sep) ==
    IF s = <<>> THEN << <<>> >>
    ELSE LET rest == Split(Tail(s), sep)
         IN  IF Head(s) = sep
             THEN << <<>> >> \o rest
             ELSE << <<Head(s)>> \o Head(rest) >> \o Tail(rest)

\* glom(target, "a.b.c", default=default): the default when a segment of the
\* path is missing or the value reached on the way is not a mapping
RECURSIVE Glom(_, _, _)
Glom(target, path, default) ==
    IF path = <<>> THEN target
    ELSE IF target.py = "dict" /\ Head(path) \in DOMAIN target.d
         THEN Glom(target.d[Head(path)], Tail(path), default)
         ELSE default

\* what a call ends in
Return(v) == [kind |-> "return", value |-> v]

Raise(exc) == [kind |-> "raise", exc |-> exc]

-----------------------------------------------------------------------------
(* Each part of the program runs on its own; the others are idle *)

IdleFetch ==
    /\ issues = <<>>
    /\ next_page_token = None
    /\ requests = <<>>
    /\ responses = <<>>
    /\ fetch = "idle"
    /\ caller = "none"
    /\ output = <<>>

IdleIssue ==
    /\ incident = None
    /\ original = None
    /\ results = <<>>

IdleHuman ==
    /\ td = None
    /\ humanized = <<>>

IdleReport ==
    /\ program = "none"
    /\ now = None
    /\ issue_data = <<>>
    /\ reports = <<>>

-----------------------------------------------------------------------------
(* get_all_issues_for_project *)

MaxPages == 3

max_results == 100

\* the issue lists a page can carry (an issue is named by its key)
PageIssues == {<<>>, <<"IIM-1">>, <<"IIM-2", "IIM-3">>}

Tokens == {Str(<<>>), Str(<<"tokA">>), Str(<<"tokB">>)}

\* the JSON bodies a page can carry: each of the three keys may be missing
PageData ==
    LET withIssues == {[issues |-> l] : l \in PageIssues}
        core == withIssues \cup {[isLast |-> FALSE]}
        withLast == core \cup {[k \in DOMAIN d \cup {"isLast"} |->
                                   IF k = "isLast" THEN b ELSE d[k]] :
                               d \in withIssues, b \in BOOLEAN}
    IN  withLast \cup {[k \in DOMAIN d \cup {"nextPageToken"} |->
                           IF k = "nextPageToken" THEN t ELSE d[k]] :
                       d \in withLast, t \in Tokens}

Responses ==
    {[status_code |-> 200, json |-> d] : d \in PageData}
        \cup {[status_code |-> c, json |-> [errorMessages |-> <<"failed">>]] :
              c \in {404, 503}}

\* a slip: only server errors raise
RaisesOnlyForServerErrors(resp) == resp.status_code >= 500 /\ resp.status_code < 600

\* requests.Response.raise_for_status
RaisesForStatus(resp) == resp.status_code >= 400 /\ resp.status_code < 600

\* the params of the request: the token is sent only when there is one
Params(token) ==
    LET base == [jql |-> "project = \"IIM\" and issueType = \"Incident\" ORDER BY created ASC",
                 maxResults |-> max_results,
                 fields |-> "*all"]
    IN  IF Truthy(token)
        THEN [k \in DOMAIN base \cup {"nextPageToken"} |->
                 IF k = "nextPageToken" THEN token ELSE base[k]]
        ELSE base

\* data.get("isLast") is True
IsLast(data) == "isLast" \in DOMAIN data /\ data.isLast = TRUE

\* a slip: the final-page test comes before the page's issues are added
AfterPageLastDropped(data, acc) ==
    LET all == acc \o Get(data, "issues", <<>>)
        token == Get(data, "nextPageToken", None)
    IN  IF IsLast(data)
        THEN [issues |-> acc, token |-> None, stop |-> TRUE, keep |-> TRUE]
        ELSE [issues |-> all, token |-> token, stop |-> ~Truthy(token), keep |-> FALSE]

\* a slip: without a token the loop goes on, asking for the first page again
AfterPageNoDefensiveStop(data, acc) ==
    LET all == acc \o Get(data, "issues", <<>>)
        token == Get(data, "nextPageToken", None)
    IN  IF IsLast(data)
        THEN [issues |-> all, token |-> None, stop |-> TRUE, keep |-> TRUE]
        ELSE [issues |-> all, token |-> token, stop |-> FALSE, keep |-> FALSE]

\* the state of the loop after the body has run on a successful response
AfterPage(data, acc) ==
    LET all == acc \o Get(data, "issues", <<>>)
        token == Get(data, "nextPageToken", None)
    IN  IF IsLast(data)
        THEN [issues |-> all, token |-> None, stop |-> TRUE, keep |-> TRUE]
        ELSE [issues |-> all, token |-> token, stop |-> ~Truthy(token), keep |-> FALSE]

\* one iteration of the while loop: a request, its response, the loop body
FetchPage ==
    /\ fetch = "running"
    /\ Len(requests) < MaxPages
    /\ \E resp \in Responses :
        /\ requests' = Append(requests, Params(next_page_token))
        /\ responses' = Append(responses, resp)
        /\ IF RaisesForStatus(resp)
           THEN /\ fetch' = "raised"
                /\ UNCHANGED <<issues, next_page_token>>
           ELSE LET after == AfterPage(resp.json, issues)
                IN  /\ issues' = after.issues
                    /\ next_page_token' =
                           IF after.keep THEN next_page_token ELSE after.token
                    /\ fetch' = IF after.stop THEN "returned" ELSE "running"
    /\ UNCHANGED <<caller, output>>
    /\ UNCHANGED <<issueVars, humanVars, reportVars>>

\* the report builder goes on with the list the fetch returned; an exception
\* of the fetch is not caught, so nothing follows it
BuildReport ==
    /\ fetch = "returned"
    /\ output = <<>>
    /\ output' = <<[by |-> caller, issue_data |-> issues]>>
    /\ UNCHANGED <<issues, next_page_token, requests, responses, fetch, caller>>
    /\ UNCHANGED <<issueVars, humanVars, reportVars>>

InitFetch ==
    /\ issues = <<>>
    /\ next_page_token = None
    /\ requests = <<>>
    /\ responses = <<>>
    /\ fetch = "running"
    /\ caller \in {"iim_weekly_report", "iim_active"}
    /\ output = <<>>
    /\ IdleIssue
    /\ IdleHuman
    /\ IdleReport

NextFetch == FetchPage \/ BuildReport

SpecFetch == InitFetch /\ [][NextFetch]_vars

-----------------------------------------------------------------------------
(* Claims about get_all_issues_for_project *)

\* what a response says, read off the response alone
PageSucceeded(resp) == resp.status_code \in 200..299

PageIsFinal(resp) ==
    /\ "isLast" \in DOMAIN resp.json
    /\ resp.json.isLast

PageHasToken(resp) ==
    /\ "nextPageToken" \in DOMAIN resp.json
    /\ resp.json.nextPageToken.s # <<>>

PageIssueList(resp) ==
    IF "issues" \in DOMAIN resp.json THEN resp.json.issues ELSE <<>>

RECURSIVE ConcatPages(_, _)
ConcatPages(rs, k) ==
    IF k = 0 THEN <<>> ELSE ConcatPages(rs, k - 1) \o PageIssueList(rs[k])

\* the responses so far are successful pages, the last one the first final
\* page, every earlier one with a continuation token
FinalPageArrived ==
    /\ responses # <<>>
    /\ \A i \in 1..Len(responses) : PageSucceeded(responses[i])
    /\ PageIsFinal(responses[Len(responses)])
    /\ \A i \in 1..(Len(responses) - 1) :
        ~PageIsFinal(responses[i]) /\ PageHasToken(responses[i])

\* C1: when page k is the first final page and all earlier pages carried a
\* token, the fetch has returned after exactly k requests, each carrying the
\* token of the page before it, and the list is the concatenation of the
\* issue lists of pages 1..k in arrival order.
C1_FetchAllPages ==
    FinalPageArrived =>
        /\ fetch = "returned"
        /\ Len(requests) = Len(responses)
        /\ "nextPageToken" \notin DOMAIN requests[1]
        /\ \A i \in 2..Len(requests) :
            /\ "nextPageToken" \in DOMAIN requests[i]
            /\ requests[i].nextPageToken = responses[i - 1].json.nextPageToken
        /\ issues = ConcatPages(responses, Len(responses))
        /\ (output # <<>> => output[1].issue_data = issues)

C1_Witness ==
    /\ FinalPageArrived
    /\ Len(responses) = 3
    /\ Len(requests) = 3
    /\ fetch = "returned"
    /\ issues = <<"IIM-1", "IIM-2", "IIM-3", "IIM-1">>

\* a page that is not final and carries no continuation token
IsAnomalousPage(resp) ==
    PageSucceeded(resp) /\ ~PageIsFinal(resp) /\ ~PageHasToken(resp)

\* C2: a page that is not final and carries no token is the last one
\* requested, and the fetch has returned, without an error, everything
\* accumulated up to and including that page.
C2_DefensiveStop ==
    \A i \in 1..Len(responses) :
        IsAnomalousPage(responses[i]) =>
            /\ i = Len(responses)
            /\ Len(requests) = i
            /\ fetch = "returned"
            /\ issues = ConcatPages(responses, i)

C2_Witness ==
    /\ Len(responses) = 2
    /\ Len(requests) = 2
    /\ IsAnomalousPage(responses[2])
    /\ fetch = "returned"
    /\ issues = <<"IIM-1", "IIM-2", "IIM-3">>
    /\ output # <<>>

\* C3: a response with a non-success status is the last one requested (no
\* further request, no retry), the fetch has ended in an error, and no report
\* builder has got a list to produce output from.
C3_ErrorAborts ==
    \A i \in 1..Len(responses) :
        ~PageSucceeded(responses[i]) =>
            /\ i = Len(responses)
            /\ Len(requests) = i
            /\ fetch = "raised"
            /\ output = <<>>

C3_Witness ==
    /\ Len(responses) = 3
    /\ ~PageSucceeded(responses[3])
    /\ responses[3].status_code = 404
    /\ issues # <<>>
    /\ fetch = "raised"
    /\ output = <<>>

-----------------------------------------------------------------------------
(* extract_doc *)

MaxNodes == 4

MaxCalls == 2

DocPrefix == <<"https://docs.google.com/document">>

DocUrlA == <<"https://docs.google.com/document", "/d/A/edit">>

DocUrlB == <<"https://docs.google.com/document", "/d/B">>

DocUrlC == <<"https://docs.google.com/document", "s-are-here">>

SheetUrl == <<"https://docs.google.com/", "spreadsheets/d/1">>

OtherUrl == <<"https://example.com/", "postmortem">>

NoDoc == Str(<<"no doc">>)

\* the content nodes of a description, without their children
NodeKinds == {
    [type |-> "paragraph"],
    [type |-> "inlineCard", attrs |-> [url |-> Str(DocUrlA)]],
    [type |-> "inlineCard", attrs |-> [url |-> Str(SheetUrl)]],
    [type |-> "inlineCard", attrs |-> [url |-> None]],
    [type |-> "text", text |-> "see"],
    [type |-> "text", text |-> "report",
     marks |-> << [type |-> "strong"],
                  [type |-> "link", attrs |-> [href |-> Str(OtherUrl)]],
                  [type |-> "link", attrs |-> [href |-> Str(DocUrlB)]],
                  [type |-> "link", attrs |-> [href |-> Str(DocUrlC)]] >>] }

WithContent(node, children) ==
    IF children = <<>> THEN node ELSE ("content" :> children) @@ node

\* the shapes of the content lists of n nodes in all, children included: a
\* shape is the sequence of the shapes of the children lists of its nodes
RECURSIVE Shapes(_)
Shapes(n) ==
    IF n = 0 THEN {<<>>}
    ELSE UNION { { <<children>> \o rest :
                     children \in Shapes(k - 1),
                     rest \in Shapes(n - k) } : k \in 1..n }

RECURSIVE Size(_)
Size(shape) ==
    IF shape = <<>> THEN 0 ELSE 1 + Size(Head(shape)) + Size(Tail(shape))

\* the content list of a shape whose nodes are, in the order of the JSON
\* text, kinds[i], kinds[i + 1], ...
RECURSIVE ContentList(_, _, _)
ContentList(shape, kinds, i) ==
    IF shape = <<>> THEN <<>>
    ELSE <<WithContent(kinds[i], ContentList(Head(shape), kinds, i + 1))>>
             \o ContentList(Tail(shape), kinds, i + 1 + Size(Head(shape)))

EmptyDescriptions ==
    {None, Dict(<<>>), Dict([type |-> "doc"]), Dict([type |-> "doc", content |-> <<>>])}

RequiredFields ==
    [status |-> Dict([name |-> Str(<<"In Progress">>)]),
     summary |-> Str(<<"Login is down">>)]

WithDescription(d) ==
    [key |-> Str(<<"IIM-7">>), fields |-> Dict(("description" :> d) @@ RequiredFields)]

WithoutDescription ==
    [key |-> Str(<<"IIM-7">>), fields |-> Dict(RequiredFields)]

is_doc(url) == Truthy(url) /\ StartsWith(url.s, DocPrefix)

\* the for loop over the marks of a text node: the first link that is a doc
RECURSIVE FirstDocLink(_)
FirstDocLink(marks) ==
    IF marks = <<>> THEN None
    ELSE IF Head(marks).type = "link" /\ is_doc(Head(marks).attrs.href)
         THEN Head(marks).attrs.href
         ELSE FirstDocLink(Tail(marks))

\* a slip: the children go behind the waiting nodes (breadth first)
RECURSIVE ExtractLoopBreadthFirst(_)
ExtractLoopBreadthFirst(st) ==
    IF st.content_nodes = <<>> THEN [value |-> NoDoc, list |-> st.list]
    ELSE LET node == Head(st.content_nodes)
             popped == Tail(st.content_nodes)
             list == IF st.aliased THEN Tail(st.list) ELSE st.list
             link == IF node.type = "text"
                     THEN FirstDocLink(Get(node, "marks", <<>>))
                     ELSE None
         IN  IF node.type = "inlineCard" /\ is_doc(node.attrs.url)
             THEN [value |-> node.attrs.url, list |-> list]
             ELSE IF link # None
                  THEN [value |-> link, list |-> list]
                  ELSE ExtractLoopBreadthFirst(
                           [content_nodes |-> popped \o Get(node, "content", <<>>),
                            aliased |-> FALSE,
                            list |-> list])

\* the while loop.  content_nodes is a name: st.aliased says that it still
\* names the list object held by the description (st.list), which
\* content_nodes.pop(0) then changes; the assignment at the end of the body
\* binds the name to a new list.
RECURSIVE ExtractLoop(_)
ExtractLoop(st) ==
    IF st.content_nodes = <<>> THEN [value |-> NoDoc, list |-> st.list]
    ELSE LET node == Head(st.content_nodes)
             popped == Tail(st.content_nodes)
             list == IF st.aliased THEN Tail(st.list) ELSE st.list
             link == IF node.type = "text"
                     THEN FirstDocLink(Get(node, "marks", <<>>))
                     ELSE None
         IN  IF node.type = "inlineCard" /\ is_doc(node.attrs.url)
             THEN [value |-> node.attrs.url, list |-> list]
             ELSE IF link # None
                  THEN [value |-> link, list |-> list]
                  ELSE ExtractLoop(
                           [content_nodes |-> Get(node, "content", <<>>) \o popped,
                            aliased |-> FALSE,
                            list |-> list])

\* extract_doc(incident): how the call ends, and the incident object after it
extract_doc(inc) ==
    LET description == Glom(Dict(inc), <<"fields", "description">>, Dict(<<>>))
    IN  IF description.py # "dict"
        THEN [end |-> Raise("AttributeError"), incident |-> inc]
        ELSE IF "content" \notin DOMAIN description.d
             THEN [end |-> Return(ExtractLoop([content_nodes |-> <<>>,
                                               aliased |-> FALSE,
                                               list |-> <<>>]).value),
                   incident |-> inc]
             ELSE LET done == ExtractLoop([content_nodes |-> description.d.content,
                                           aliased |-> TRUE,
                                           list |-> description.d.content])
                  IN  [end |-> Return(done.value),
                       incident |->
                           [inc EXCEPT !.fields.d.description.d.content = done.list]]

ExtractDoc ==
    /\ results = <<>>
    /\ LET call == extract_doc(incident)
       IN  /\ results' = <<call.end>>
           /\ incident' = call.incident
    /\ UNCHANGED original
    /\ UNCHANGED <<fetchVars, humanVars, reportVars>>

InitDoc ==
    /\ IdleFetch
    /\ IdleHuman
    /\ IdleReport
    /\ \/ incident = WithoutDescription
       \/ \E d \in EmptyDescriptions : incident = WithDescription(d)
       \/ \E n \in 1..MaxNodes : \E shape \in Shapes(n) :
              \E kinds \in [1..n -> NodeKinds] :
                  incident = WithDescription(
                      Dict([type |-> "doc", content |-> ContentList(shape, kinds, 1)]))
    /\ original = incident
    /\ results = <<>>

NextDoc == ExtractDoc

SpecDoc == InitDoc /\ [][NextDoc]_vars

-----------------------------------------------------------------------------
(* Claims about extract_doc *)

\* a URL that qualifies, read off its text
QualifiesAsDoc(url) ==
    /\ url.py = "str"
    /\ url.s # <<>>
    /\ url.s[1] = "https://docs.google.com/document"

\* the nodes of a content list in depth-first, left-to-right pre-order
RECURSIVE PreOrder(_)
PreOrder(list) ==
    IF list = <<>> THEN <<>>
    ELSE LET node == Head(list)
             children == IF "content" \in DOMAIN node THEN node.content ELSE <<>>
         IN  <<node>> \o PreOrder(children) \o PreOrder(Tail(list))

IsQualifyingLink(mark) == mark.type = "link" /\ QualifiesAsDoc(mark.attrs.href)

\* the URLs a node contributes: at most one
NodeUrls(node) ==
    IF node.type = "inlineCard" /\ QualifiesAsDoc(node.attrs.url)
    THEN <<node.attrs.url>>
    ELSE IF node.type = "text" /\ "marks" \in DOMAIN node
         THEN LET links == SelectSeq(node.marks, IsQualifyingLink)
              IN  IF links = <<>> THEN <<>> ELSE <<links[1].attrs.href>>
         ELSE <<>>

RECURSIVE UrlsOf(_)
UrlsOf(nodes) ==
    IF nodes = <<>> THEN <<>> ELSE NodeUrls(Head(nodes)) \o UrlsOf(Tail(nodes))

FirstDocInPreOrder(list) ==
    LET urls == UrlsOf(PreOrder(list))
    IN  IF urls = <<>> THEN NoDoc ELSE urls[1]

HasContentTree(inc) ==
    /\ "description" \in DOMAIN inc.fields.d
    /\ inc.fields.d.description.py = "dict"
    /\ "content" \in DOMAIN inc.fields.d.description.d

ContentOf(inc) == inc.fields.d.description.d.content

\* C4: on a content tree, extract_doc returns the URL of the first node, in
\* depth-first left-to-right pre-order, that is an inlineCard with a
\* qualifying URL or a text node with a qualifying link mark (its first such
\* mark), and "no doc" exactly when no node qualifies.
C4_FirstDocDepthFirst ==
    (results # <<>> /\ HasContentTree(original)) =>
        results[1] = Return(FirstDocInPreOrder(ContentOf(original)))

\* a doc link three levels down under the first top-level node wins over a
\* doc card that is the second top-level node
C4_Witness ==
    /\ results # <<>>
    /\ HasContentTree(original)
    /\ ContentOf(original) =
           << [type |-> "paragraph",
               content |-> << [type |-> "paragraph",
                               content |-> << [type |-> "text", text |-> "report",
                                               marks |-> << [type |-> "strong"],
                                                            [type |-> "link", attrs |-> [href |-> Str(OtherUrl)]],
                                                            [type |-> "link", attrs |-> [href |-> Str(DocUrlB)]],
                                                            [type |-> "link", attrs |-> [href |-> Str(DocUrlC)]] >>] >>] >>],
              [type |-> "inlineCard", attrs |-> [url |-> Str(DocUrlA)]] >>
    /\ results[1] = Return(Str(DocUrlB))

\* the description is missing, null, an empty mapping, or a mapping with no
\* or an empty content list
DescriptionEmptyOrAbsent(inc) ==
    \/ "description" \notin DOMAIN inc.fields.d
    \/ inc.fields.d.description.py = "NoneType"
    \/ /\ inc.fields.d.description.py = "dict"
       /\ \/ "content" \notin DOMAIN inc.fields.d.description.d
          \/ inc.fields.d.description.d.content = <<>>

\* C5: for an empty or absent description (the key missing, null, an empty
\* mapping, no or an empty content list) extract_doc returns "no doc" and
\* does not raise.
C5_EmptyDescriptionNoDoc ==
    (results # <<>> /\ DescriptionEmptyOrAbsent(original)) =>
        results[1] = Return(NoDoc)

-----------------------------------------------------------------------------
(* fix_incident_data *)

JiraUrl == Str(<<"https://jira.example.com">>)

Undetermined == Str(<<"undetermined">>)

Unknown == Str(<<"u", "n", "k", "n", "o", "w", "n">>)

\* the optional fields of a raw issue, by the key of the record they feed
FieldOf ==
    [severity |-> "customfield_10319",
     entities |-> "customfield_18555",
     report_url |-> "description"]
    @@ ("declare date" :> "customfield_15087")
    @@ ("impact start" :> "customfield_15191")
    @@ ("detection method" :> "customfield_12881")
    @@ [detected |-> "customfield_12882",
        alerted |-> "customfield_12883",
        acknowledged |-> "customfield_12884",
        responded |-> "customfield_12885",
        mitigated |-> "customfield_12886",
        resolved |-> "customfield_12887"]

OptionalFields == {FieldOf[k] : k \in DOMAIN FieldOf}

DateStamps == {"declare date", "impact start", "detected", "alerted",
               "acknowledged", "responded", "mitigated", "resolved"}

\* a field that is present may hold the JSON null
SeverityValues ==
    {Dict([value |-> Str(<<"S2">>), id |-> Str(<<"10021">>)]),
     Dict([id |-> Str(<<"10021">>)]),
     None}

EntitiesValues ==
    {Str(<<"f", "x", "a">>),
     Str(<<"f", "x", "a", ",", "v", "p", "n">>),
     Str(<<",", "a", ",", ",">>),
     None}

DescriptionValues ==
    {Dict([type |-> "doc",
           content |-> << [type |-> "inlineCard", attrs |-> [url |-> Str(DocUrlA)]],
                          [type |-> "text", text |-> "notes",
                           marks |-> << [type |-> "link",
                                         attrs |-> [href |-> Str(DocUrlB)]] >>] >>]),
     Dict([type |-> "doc",
           content |-> << [type |-> "paragraph",
                           content |-> << [type |-> "text", text |-> "none yet"] >>],
                          [type |-> "inlineCard", attrs |-> [url |-> Str(SheetUrl)]] >>]),
     None}

\* the value a present field has, given the choices for the three fields
\* that come in several shapes and whether the other fields hold null
FieldValue(field, sev, ent, desc, nulls) ==
    CASE field = "customfield_10319" -> sev
      [] field = "customfield_18555" -> ent
      [] field = "description" -> desc
      [] nulls -> None
      [] field = "customfield_12881" -> Dict([value |-> Str(<<"Automated alert">>)])
      [] OTHER -> Str(<<"2025-01-31T15:06:00.000-0500", " of ", field>>)

RawIssue(present, sev, ent, desc, nulls) ==
    [key |-> Str(<<"IIM-7">>),
     fields |-> Dict([f \in present |-> FieldValue(f, sev, ent, desc, nulls)]
                     @@ RequiredFields)]

\* fix_incident_data(jira_url, incident): how the call ends, and the incident
\* object after it.  The dict display is evaluated top down, so the entities
\* are split before extract_doc is called.
fix_incident_data(jira_url, inc) ==
    LET fields == inc.fields
        entities == Glom(Dict(inc), <<"fields", "customfield_18555">>, Unknown)
        doc == extract_doc(inc)
        field(path) == Glom(Dict(inc), <<"fields">> \o path, None)
    IN  IF entities.py # "str"
        THEN [end |-> Raise("AttributeError"), incident |-> inc]
        ELSE IF doc.end.kind = "raise"
             THEN doc
             ELSE [end |-> Return(
                      [key |-> inc.key,
                       jira_url |-> Str(jira_url.s \o <<"/browse/">> \o inc.key.s),
                       status |-> fields.d.status.d.name,
                       summary |-> fields.d.summary,
                       severity |-> Glom(Dict(inc),
                                         <<"fields", "customfield_10319", "value">>,
                                         Undetermined),
                       entities |-> LET parts == Split(entities.s, ",")
                                    IN  List([i \in 1..Len(parts) |-> Str(parts[i])]),
                       report_url |-> doc.end.value,
                       detected |-> field(<<"customfield_12882">>),
                       alerted |-> field(<<"customfield_12883">>),
                       acknowledged |-> field(<<"customfield_12884">>),
                       responded |-> field(<<"customfield_12885">>),
                       mitigated |-> field(<<"customfield_12886">>),
                       resolved |-> field(<<"customfield_12887">>)]
                      @@ ("declare date" :> field(<<"customfield_15087">>))
                      @@ ("impact start" :> field(<<"customfield_15191">>))
                      @@ ("detection method" :> field(<<"customfield_12881", "value">>))),
                   incident |-> doc.incident]

\* a call of fix_incident_data on the raw issue object
FixIncidentData ==
    /\ Len(results) < MaxCalls
    /\ LET call == fix_incident_data(JiraUrl, incident)
       IN  /\ results' = Append(results, call.end)
           /\ incident' = call.incident
    /\ UNCHANGED original
    /\ UNCHANGED <<fetchVars, humanVars, reportVars>>

InitFix ==
    /\ IdleFetch
    /\ IdleHuman
    /\ IdleReport
    /\ \E present \in SUBSET OptionalFields :
           \E sev \in SeverityValues, ent \in EntitiesValues, desc \in DescriptionValues :
               \E nulls \in BOOLEAN :
                   incident = RawIssue(present, sev, ent, desc, nulls)
    /\ original = incident
    /\ results = <<>>

NextFix == FixIncidentData

SpecFix == InitFix /\ [][NextFix]_vars

-----------------------------------------------------------------------------
(* Claims about fix_incident_data *)

\* C6: fix_incident_data, extract_doc included, leaves the raw issue object
\* as it was, and a second call on the same object returns the same record.
C6_NoSideEffect ==
    results # <<>> =>
        /\ incident = original
        /\ \A i \in 2..Len(results) : results[i] = results[1]

\* the pieces joined by commas
RECURSIVE JoinComma(_)
JoinComma(pieces) ==
    IF Len(pieces) = 1 THEN pieces[1].s
    ELSE pieces[1].s \o <<",">> \o JoinComma(Tail(pieces))

RawFields(inc) == inc.fields.d

\* the field is present and holds a mapping with the member
HasMember(raw, field, member) ==
    /\ field \in DOMAIN RawFields(raw)
    /\ RawFields(raw)[field].py = "dict"
    /\ member \in DOMAIN RawFields(raw)[field].d

\* the part of C7 that is about the fields one by one: the required fields,
\* the defaults of the missing ones, the values of the present ones (the
\* entities as the sequence of the pieces between the commas of the field)
NormalizedAsDocumented(raw, rec) ==
    /\ rec.key = raw.key
    /\ rec.jira_url = Str(<<"https://jira.example.com", "/browse/", "IIM-7">>)
    /\ rec.status = RawFields(raw).status.d.name
    /\ rec.summary = RawFields(raw).summary
    /\ IF HasMember(raw, "customfield_10319", "value")
       THEN rec.severity = RawFields(raw).customfield_10319.d.value
       ELSE rec.severity = Str(<<"undetermined">>)
    /\ rec.entities.py = "list"
    /\ IF "customfield_18555" \in DOMAIN RawFields(raw)
       THEN JoinComma(rec.entities.items) = RawFields(raw).customfield_18555.s
       ELSE rec.entities = List(<< Str(<<"u", "n", "k", "n", "o", "w", "n">>) >>)
    /\ "description" \notin DOMAIN RawFields(raw) =>
           rec.report_url = Str(<<"no doc">>)
    /\ IF HasMember(raw, "customfield_12881", "value")
       THEN rec["detection method"] = RawFields(raw).customfield_12881.d.value
       ELSE rec["detection method"] = None
    /\ \A k \in DateStamps :
           IF FieldOf[k] \in DOMAIN RawFields(raw)
           THEN rec[k] = RawFields(raw)[FieldOf[k]]
           ELSE rec[k] = None

\* C7: whichever optional fields of a raw issue are missing, the normalizer
\* does not fail, every missing optional field takes its default (severity
\* "undetermined", entities ["unknown"], report_url "no doc", the others
\* null), every present field is carried over with its value, and jira_url
\* is the base URL, "/browse/" and the key.
C7_NormalizerDefaults ==
    results # <<>> =>
        /\ results[1].kind = "return"
        /\ NormalizedAsDocumented(original, results[1].value)

-----------------------------------------------------------------------------
(* humanize_timedelta *)

MaxCount == 2

SecondsPerDay == 86400

SecondsPerHour == 3600

SecondsPerMinute == 60

\* datetime.timedelta, normalized as Python holds it: the days may be
\* negative, the seconds and the microseconds never are
TimeDelta(seconds, microseconds) ==
    [days |-> seconds \div SecondsPerDay,
     seconds |-> seconds % SecondsPerDay,
     microseconds |-> microseconds]

\* int(td.total_seconds()): the fraction is cut off towards zero
IntTotalSeconds(delta) ==
    LET whole == delta.days * SecondsPerDay + delta.seconds
    IN  IF whole < 0 /\ delta.microseconds > 0 THEN whole + 1 ELSE whole

Digit(d) == <<"0", "1", "2", "3", "4", "5", "6", "7", "8", "9">>[d + 1]

RECURSIVE Decimal(_)
Decimal(n) == IF n < 10 THEN <<Digit(n)>> ELSE Decimal(n \div 10) \o <<Digit(n % 10)>>

\* format(n, ","): the decimal digits in groups of three
RECURSIVE FormatComma(_)
FormatComma(n) ==
    IF n < 1000 THEN Decimal(n)
    ELSE FormatComma(n \div 1000)
             \o <<",", Digit((n \div 100) % 10), Digit((n \div 10) % 10), Digit(n % 10)>>

\* str.join
RECURSIVE Join(_, _)
Join(sep, parts) ==
    IF parts = <<>> THEN <<>>
    ELSE IF Len(parts) = 1 THEN parts[1]
         ELSE parts[1] \o sep \o Join(sep, Tail(parts))

\* parts[:n]
Take(parts, n) == SubSeq(parts, 1, IF Len(parts) < n THEN Len(parts) ELSE n)

\* a slip: the three most significant parts are kept
humanize_timedelta_three_parts(delta) ==
    LET total == IntTotalSeconds(delta)
        sign == IF total < 0 THEN <<"-">> ELSE <<>>
        total_seconds == IF total < 0 THEN -total ELSE total
        days == total_seconds \div SecondsPerDay
        hours == (total_seconds % SecondsPerDay) \div SecondsPerHour
        minutes == ((total_seconds % SecondsPerDay) % SecondsPerHour) \div SecondsPerMinute
        seconds == ((total_seconds % SecondsPerDay) % SecondsPerHour) % SecondsPerMinute
        parts1 == IF days # 0 THEN <<FormatComma(days) \o <<"d">> >> ELSE <<>>
        parts2 == IF hours # 0 THEN Append(parts1, FormatComma(hours) \o <<"h">>) ELSE parts1
        parts3 == IF minutes # 0 THEN Append(parts2, FormatComma(minutes) \o <<"m">>) ELSE parts2
        parts4 == IF seconds # 0 \/ parts3 = <<>>
                  THEN Append(parts3, FormatComma(seconds) \o <<"s">>)
                  ELSE parts3
    IN  sign \o Join(<<" ">>, Take(parts4, 3))

\* humanize_timedelta(td): the characters of the string returned
humanize_timedelta(delta) ==
    LET total == IntTotalSeconds(delta)
        sign == IF total < 0 THEN <<"-">> ELSE <<>>
        total_seconds == IF total < 0 THEN -total ELSE total
        days == total_seconds \div SecondsPerDay
        hours == (total_seconds % SecondsPerDay) \div SecondsPerHour
        minutes == ((total_seconds % SecondsPerDay) % SecondsPerHour) \div SecondsPerMinute
        seconds == ((total_seconds % SecondsPerDay) % SecondsPerHour) % SecondsPerMinute
        parts1 == IF days # 0 THEN <<FormatComma(days) \o <<"d">> >> ELSE <<>>
        parts2 == IF hours # 0 THEN Append(parts1, FormatComma(hours) \o <<"h">>) ELSE parts1
        parts3 == IF minutes # 0 THEN Append(parts2, FormatComma(minutes) \o <<"m">>) ELSE parts2
        parts4 == IF seconds # 0 \/ parts3 = <<>>
                  THEN Append(parts3, FormatComma(seconds) \o <<"s">>)
                  ELSE parts3
    IN  sign \o Join(<<" ">>, Take(parts4, 2))

\* the intervals tried: every mix of small and of extreme counts of days,
\* hours, minutes and seconds, of either sign, with or without a fraction
DayCounts == 0..MaxCount \cup {999, 1000, 1234, 12345}

HourCounts == 0..MaxCount \cup {23}

MinuteCounts == 0..MaxCount \cup {59}

SecondCounts == 0..MaxCount \cup {45, 59}

Humanize ==
    /\ humanized = <<>>
    /\ humanized' = <<humanize_timedelta(td)>>
    /\ UNCHANGED td
    /\ UNCHANGED <<fetchVars, issueVars, reportVars>>

InitHuman ==
    /\ IdleFetch
    /\ IdleIssue
    /\ IdleReport
    /\ \E d \in DayCounts, h \in HourCounts, m \in MinuteCounts, sec \in SecondCounts :
           \E sgn \in {-1, 1}, micro \in {0, 500000} :
               td = TimeDelta(sgn * (d * SecondsPerDay + h * SecondsPerHour
                                        + m * SecondsPerMinute + sec),
                              micro)
    /\ humanized = <<>>

NextHuman == Humanize

SpecHuman == InitHuman /\ [][NextHuman]_vars

-----------------------------------------------------------------------------
(* Claims about humanize_timedelta *)

\* the interval is n whole seconds
WholeSeconds(delta) == delta.days * 86400 + delta.seconds

Magnitude(n) == IF n < 0 THEN -n ELSE n

\* |n| in days, hours, minutes, seconds, by successive division
Components(n) ==
    << [count |-> Magnitude(n) \div 86400, unit |-> "d"],
       [count |-> (Magnitude(n) % 86400) \div 3600, unit |-> "h"],
       [count |-> (Magnitude(n) % 3600) \div 60, unit |-> "m"],
       [count |-> Magnitude(n) % 60, unit |-> "s"] >>

IsNonZero(component) == component.count # 0

\* the first two of the non-zero components, or zero seconds
Shown(n) ==
    LET nonzero == SelectSeq(Components(n), IsNonZero)
    IN  IF nonzero = <<>> THEN << [count |-> 0, unit |-> "s"] >>
        ELSE IF Len(nonzero) <= 2 THEN nonzero
             ELSE <<nonzero[1], nonzero[2]>>

\* the digits of a number, most significant first
PlainDigits(n) ==
    LET len == CHOOSE k \in 1..10 :
                   /\ (k > 1 => 10 ^ (k - 1) <= n)
                   /\ (k < 10 => n < 10 ^ k)
    IN  [i \in 1..len |-> Digit((n \div (10 ^ (len - i))) % 10)]

\* the digits with a comma before every group of three that is not the first
GroupedDigits(n) ==
    LET plain == PlainDigits(n)
        piece(i) == IF i > 1 /\ (Len(plain) - i + 1) % 3 = 0
                    THEN <<",", plain[i]>>
                    ELSE <<plain[i]>>
        RECURSIVE upto(_)
        upto(i) == IF i = 0 THEN <<>> ELSE upto(i - 1) \o piece(i)
    IN  upto(Len(plain))

SignOf(n) == IF n < 0 THEN <<"-">> ELSE <<>>

\* C8 as stated: the sign, then the first two non-zero components, each its
\* value and its unit letter, one right after the other
ExactUnseparated(n) ==
    LET shown == Shown(n)
        text(i) == GroupedDigits(shown[i].count) \o <<shown[i].unit>>
    IN  SignOf(n) \o text(1) \o (IF Len(shown) = 2 THEN text(2) ELSE <<>>)

\* C8, amended: the components are separated by one space
GroupedSpaced(n) ==
    LET shown == Shown(n)
        text(i) == GroupedDigits(shown[i].count) \o <<shown[i].unit>>
    IN  SignOf(n) \o text(1) \o (IF Len(shown) = 2 THEN <<" ">> \o text(2) ELSE <<>>)

IsWholeSeconds == td.microseconds = 0

\* C8 as stated: humanize(n) is the sign and the first two non-zero
\* components written one right after the other, so that
\* humanize(3661) = "1h1m".
C8_Unseparated ==
    (humanized # <<>> /\ IsWholeSeconds) =>
        humanized[1] = ExactUnseparated(WholeSeconds(td))

\* C8, amended: for an interval of n whole seconds the output is the sign
\* "-" (iff n < 0) and the first two non-zero components of |n|, in
\* descending unit order, each its exact value with thousands separators and
\* its unit letter, the two separated by one space, or "0s" when n = 0;
\* humanize(0) = "0s", humanize(45) = "45s", humanize(3661) = "1h 1m",
\* humanize(86400) = "1d", humanize(-d) = "-" + humanize(d) for d > 0.
C8_HumanizeTwoParts ==
    (humanized # <<>> /\ IsWholeSeconds) =>
        LET n == WholeSeconds(td)
        IN  /\ humanized[1] = GroupedSpaced(n)
            /\ n = 0 => humanized[1] = <<"0", "s">>
            /\ n = 45 => humanized[1] = <<"4", "5", "s">>
            /\ n = 3661 => humanized[1] = <<"1", "h", " ", "1", "m">>
            /\ n = 86400 => humanized[1] = <<"1", "d">>
            /\ n < 0 => humanized[1] = <<"-">> \o humanize_timedelta(TimeDelta(-n, 0))

C8_Witness ==
    /\ humanized # <<>>
    /\ IsWholeSeconds
    /\ WholeSeconds(td) = 3661
    /\ humanized[1] = <<"1", "h", " ", "1", "m">>

-----------------------------------------------------------------------------
(* Dates: a day is counted from 1970-01-01, which is day 0 *)

\* the civil date of a day, as Python's and arrow's calendar gives it
CivilFromDays(day) ==
    LET z == day + 719468
        era == z \div 146097
        doe == z - era * 146097
        yoe == (doe - doe \div 1460 + doe \div 36524 - doe \div 146096) \div 365
        doy == doe - (365 * yoe + yoe \div 4 - yoe \div 100)
        mp == (5 * doy + 2) \div 153
        m == IF mp < 10 THEN mp + 3 ELSE mp - 9
    IN  [year |-> yoe + era * 400 + (IF m <= 2 THEN 1 ELSE 0),
         month |-> m,
         day |-> doy - (153 * mp + 2) \div 5 + 1]

\* the day of a civil date
DaysFromCivil(year, month, day) ==
    LET y == IF month <= 2 THEN year - 1 ELSE year
        era == y \div 400
        yoe == y - era * 400
        mp == IF month > 2 THEN month - 3 ELSE month + 9
        doy == (153 * mp + 2) \div 5 + day - 1
        doe == yoe * 365 + yoe \div 4 - yoe \div 100 + doy
    IN  era * 146097 + doe - 719468

TwoDigits(n) == <<Digit(n \div 10), Digit(n % 10)>>

FourDigits(n) == TwoDigits(n \div 100) \o TwoDigits(n % 100)

\* Arrow.format("YYYY-MM-DD")
FormatDate(day) ==
    LET civil == CivilFromDays(day)
    IN  FourDigits(civil.year) \o <<"-">> \o TwoDigits(civil.month)
            \o <<"-">> \o TwoDigits(civil.day)

\* a Jira datestamp, such as 2025-01-31T15:06:00.000+0000
DateStamp(day, second) ==
    FormatDate(day) \o <<"T">> \o TwoDigits(second \div 3600) \o <<":">>
        \o TwoDigits((second % 3600) \div 60) \o <<":">> \o TwoDigits(second % 60)
        \o <<".", "0", "0", "0", "+", "0", "0", "0", "0">>

DigitValue(c) == CHOOSE d \in 0..9 : Digit(d) = c

RECURSIVE Number(_)
Number(chars) ==
    IF chars = <<>> THEN 0
    ELSE 10 * Number(SubSeq(chars, 1, Len(chars) - 1)) + DigitValue(chars[Len(chars)])

\* arrow.get(datestamp): the instant the text names (every stamp and the
\* clock are taken in the one zone +0000)
ArrowGet(chars) ==
    [day |-> DaysFromCivil(Number(SubSeq(chars, 1, 4)), Number(SubSeq(chars, 6, 7)),
                           Number(SubSeq(chars, 9, 10))),
     second |-> Number(SubSeq(chars, 12, 13)) * 3600
                    + Number(SubSeq(chars, 15, 16)) * 60
                    + Number(SubSeq(chars, 18, 19))]

\* end - start, a timedelta
Minus(end, start) ==
    TimeDelta((end.day - start.day) * SecondsPerDay + (end.second - start.second), 0)

\* Arrow.floor("week"): the Monday of the week of the day
FloorWeek(day) == day - ((day + 3) % 7)

\* the order of the characters of date stamps
Ord(c) ==
    CASE c = "+" -> 43
      [] c = "-" -> 45
      [] c = "." -> 46
      [] c \in {Digit(d) : d \in 0..9} -> 48 + DigitValue(c)
      [] c = ":" -> 58
      [] c = "T" -> 84

\* a < b for two strings
RECURSIVE StrLess(_, _)
StrLess(a, b) ==
    IF b = <<>> THEN FALSE
    ELSE IF a = <<>> THEN TRUE
         ELSE IF Head(a) = Head(b) THEN StrLess(Tail(a), Tail(b))
              ELSE Ord(Head(a)) < Ord(Head(b))

StrLessEq(a, b) == a = b \/ StrLess(a, b)

\* s[0:n]
Slice(s, n) == SubSeq(s, 1, IF Len(s) < n THEN Len(s) ELSE n)

-----------------------------------------------------------------------------
(* iim_weekly_report and iim_active *)

FirstDay == 19692

SpanDays == 121

FridayShift == 4

DeclareSlice == 11

ResolvedWindowDays == 14

\* incidents = [fix_incident_data(jira_url=url, incident=incident) for ...]
RECURSIVE Normalized(_)
Normalized(raw_issues) ==
    IF raw_issues = <<>> THEN <<>>
    ELSE <<fix_incident_data(JiraUrl, Head(raw_issues)).end.value>>
             \o Normalized(Tail(raw_issues))

\* a or b
Or(a, b) == IF Truthy(a) THEN a ELSE b

\* the body of the timing loop: the incident with its ttd and ttm
WithTimings(inc, clock) ==
    LET start_ts == Or(inc["impact start"], inc.detected)
        start == ArrowGet(start_ts.s)
        ttd == IF Truthy(inc.detected)
               THEN humanize_timedelta(Minus(ArrowGet(inc.detected.s), start))
               ELSE <<"?">>
        ttm == IF Truthy(inc.mitigated)
               THEN humanize_timedelta(Minus(ArrowGet(inc.mitigated.s), start))
               ELSE humanize_timedelta(Minus(clock, start)) \o <<" (ongoing)">>
    IN  IF ~Truthy(start_ts)
        THEN [ttd |-> Str(<<"?">>), ttm |-> Str(<<"?">>)] @@ inc
        ELSE [ttd |-> Str(ttd), ttm |-> Str(ttm)] @@ inc

\* the condition of the new_incidents comprehension, on a declare date
InWindow(declared, last_friday, this_friday) ==
    /\ StrLessEq(last_friday, Slice(declared.s, DeclareSlice))
    /\ StrLessEq(Slice(declared.s, DeclareSlice), this_friday)

\* sum of the new incidents of a severity
CountOf(list, severity) ==
    LET Is(inc) == inc.severity = severity IN Len(SelectSeq(list, Is))

RemoveDashes(chars) == LET NotDash(c) == c # "-" IN SelectSeq(chars, NotDash)

\* a slip: the window is anchored a day later
weekly_window_shift_five(clock) ==
    [last_friday |-> FormatDate(FloorWeek(clock.day - 7) + 5),
     this_friday |-> FormatDate(FloorWeek(clock.day) + 5)]

\* last_friday and this_friday
weekly_window(clock) ==
    [last_friday |-> FormatDate(FloorWeek(clock.day - 7) + FridayShift),
     this_friday |-> FormatDate(FloorWeek(clock.day) + FridayShift)]

\* iim_weekly_report from the normalization on: how the run ends, with the
\* window it echoed before the incidents are filtered
iim_weekly_report(raw_issues, clock) ==
    LET incidents == [i \in 1..Len(raw_issues) |->
                         WithTimings(Normalized(raw_issues)[i], clock)]
        window == weekly_window(clock)
        IsNew(inc) == InWindow(inc["declare date"], window.last_friday, window.this_friday)
        IsActive(inc) == inc.status # Str(<<"Resolved">>)
        \* None[0:11] raises a TypeError
        SliceRaises(inc) == inc["declare date"].py = "NoneType"
        new_incidents == SelectSeq(incidents, IsNew)
        severities == {new_incidents[i].severity : i \in 1..Len(new_incidents)}
    IN  [by |-> "iim_weekly_report",
         last_friday |-> window.last_friday,
         this_friday |-> window.this_friday,
         end |-> IF SelectSeq(incidents, SliceRaises) # <<>>
                 THEN Raise("TypeError")
                 ELSE Return(
                     [new_incidents |-> new_incidents,
                      active_incidents |-> SelectSeq(incidents, IsActive),
                      severity_breakdown |->
                          [sev \in severities |-> CountOf(new_incidents, sev)],
                      fn |-> <<"incident_overviews/incident_overview_">>
                                 \o RemoveDashes(window.this_friday) \o <<".html">>])]

\* iim_active from the normalization on
iim_active(raw_issues, clock) ==
    LET incidents == Normalized(raw_issues)
        two_weeks_ago == FormatDate(clock.day - ResolvedWindowDays)
        IsRecent(inc) == Truthy(inc.resolved) /\ StrLess(two_weeks_ago, inc.resolved.s)
        IsActive(inc) == inc.status # Str(<<"Resolved">>)
    IN  [by |-> "iim_active",
         end |-> Return([resolved_incidents |-> SelectSeq(incidents, IsRecent),
                         active_incidents |-> SelectSeq(incidents, IsActive)])]

WeeklyReport ==
    /\ program = "iim_weekly_report"
    /\ reports = <<>>
    /\ reports' = <<iim_weekly_report(issue_data, now)>>
    /\ UNCHANGED <<program, now, issue_data>>
    /\ UNCHANGED <<fetchVars, issueVars, humanVars>>

ActiveReport ==
    /\ program = "iim_active"
    /\ reports = <<>>
    /\ reports' = <<iim_active(issue_data, now)>>
    /\ UNCHANGED <<program, now, issue_data>>
    /\ UNCHANGED <<fetchVars, issueVars, humanVars>>

\* the date stamps of an issue that has them, told by the day of the run
StampOf(field, today) ==
    CASE field = "customfield_15087" -> Str(DateStamp(today - 1 - 3 * (today % 3), 36000))
      [] field = "customfield_15191" -> Str(DateStamp(today - 4, 32400))
      [] field = "customfield_12882" -> Str(DateStamp(today - 4, 34205))
      [] field = "customfield_12886" -> Str(DateStamp(today - 3, 3600))
      [] field = "customfield_12887" -> Str(DateStamp(today - 15 + (today % 3), 7261))

ReportStamps == {"customfield_15087", "customfield_15191", "customfield_12882",
                 "customfield_12886", "customfield_12887"}

ReportIssue(key, status, present, today) ==
    [key |-> Str(<<key>>),
     fields |-> Dict([f \in present |-> StampOf(f, today)]
                     @@ [status |-> Dict([name |-> Str(<<status>>)]),
                         summary |-> Str(<<"Login is down">>),
                         customfield_10319 |-> Dict([value |-> Str(<<"S2">>)])])]

InitReport ==
    /\ IdleFetch
    /\ IdleIssue
    /\ IdleHuman
    /\ program \in {"iim_weekly_report", "iim_active"}
    /\ \E day \in FirstDay..(FirstDay + SpanDays) :
        /\ now = [day |-> day, second |-> 50000]
        /\ \/ issue_data = <<>>
           \/ \E present \in SUBSET ReportStamps, status \in {"Resolved", "In Progress"} :
                  LET varied == ReportIssue("IIM-7", status, present, day)
                      full == ReportIssue("IIM-8", "In Progress", ReportStamps, day)
                  IN  issue_data \in {<<varied>>, <<full, varied>>}
    /\ reports = <<>>

NextReport == WeeklyReport \/ ActiveReport

SpecReport == InitReport /\ [][NextReport]_vars

-----------------------------------------------------------------------------
(* Claims about the report builders *)

IsNull(v) == v.py = "NoneType"

\* C9: both report builders run to completion on records whose date stamps
\* are null: the weekly digest does not raise and counts no record with a
\* null declare date as new, the active report does not raise and lists no
\* record with a null resolved date as recently resolved.
C9_ReportsTolerateNulls ==
    reports # <<>> =>
        /\ reports[1].end.kind = "return"
        /\ reports[1].by = "iim_weekly_report" =>
               \A i \in 1..Len(reports[1].end.value.new_incidents) :
                   ~IsNull(reports[1].end.value.new_incidents[i]["declare date"])
        /\ reports[1].by = "iim_active" =>
               \A i \in 1..Len(reports[1].end.value.resolved_incidents) :
                   ~IsNull(reports[1].end.value.resolved_incidents[i].resolved)

\* the civil date a YYYY-MM-DD text names
DateOf(text) ==
    [year |-> Number(SubSeq(text, 1, 4)),
     month |-> Number(SubSeq(text, 6, 7)),
     day |-> Number(SubSeq(text, 9, 10))]

IsDateText(text) ==
    /\ Len(text) = 10
    /\ text[5] = "-" /\ text[8] = "-"
    /\ \A i \in {1, 2, 3, 4, 6, 7, 9, 10} : text[i] \in {Digit(d) : d \in 0..9}

\* Zeller's congruence: 0 Saturday, 1 Sunday, 2 Monday, ..., 6 Friday
Zeller(date) ==
    LET m == IF date.month <= 2 THEN date.month + 12 ELSE date.month
        y == IF date.month <= 2 THEN date.year - 1 ELSE date.year
    IN  (date.day + (13 * (m + 1)) \div 5 + (y % 100) + (y % 100) \div 4
             + (y \div 100) \div 4 + 5 * (y \div 100)) % 7

IsFriday(date) == Zeller(date) = 6

\* the number of the day in the proleptic Gregorian calendar, 0001-01-01
\* being day 1 (so that 1970-01-01 is day 719163)
RataDie(date) ==
    LET m == IF date.month <= 2 THEN date.month + 12 ELSE date.month
        y == IF date.month <= 2 THEN date.year - 1 ELSE date.year
    IN  365 * y + y \div 4 - y \div 100 + y \div 400 + (153 * m - 457) \div 5
            + date.day - 306

\* C10: whatever the day of the run, last_friday and this_friday are dates
\* that fall on Fridays, this_friday is seven days after last_friday, and
\* this_friday is the Friday of the Monday-to-Sunday week of the day of the
\* run.
C10_WindowFridays ==
    (reports # <<>> /\ reports[1].by = "iim_weekly_report") =>
        LET start == reports[1].last_friday
            end == reports[1].this_friday
            today == now.day + 719163
        IN  /\ IsDateText(start) /\ IsDateText(end)
            /\ IsFriday(DateOf(start)) /\ IsFriday(DateOf(end))
            /\ RataDie(DateOf(end)) = RataDie(DateOf(start)) + 7
            /\ RataDie(DateOf(end)) - today \in -2..4

\* a run on Sunday 2024-03-03: the window is 2024-02-23 to 2024-03-01
C10_Witness ==
    /\ reports # <<>>
    /\ reports[1].by = "iim_weekly_report"
    /\ FormatDate(now.day) = <<"2", "0", "2", "4", "-", "0", "3", "-", "0", "3">>
    /\ reports[1].last_friday = <<"2", "0", "2", "4", "-", "0", "2", "-", "2", "3">>
    /\ reports[1].this_friday = <<"2", "0", "2", "4", "-", "0", "3", "-", "0", "1">>

=============================================================================
